---- MODULE Spec2Model ----
(***************************************************************************)
(* unspread (src/main.rs): combine the spreadsheets of a folder into one   *)
(* CSV file.  Two specifications:                                          *)
(*   PathSpec - path_from / normalize_path applied to bounded inputs;      *)
(*   Spec     - main: start-up checks, the loop over the directory         *)
(*              entries, save_to_csv and the exit code.                    *)
(* Strings (file names, paths) are sequences of one-character strings, so  *)
(* that starts_with / ends_with / components are computed, not assumed.    *)
(* Not modelled: the "Press enter to exit" prompt of handle_exit and       *)
(* args.skip_waiting, which only gates it.                                 *)
(***************************************************************************)
EXTENDS Integers, Sequences, FiniteSets, TLC

VARIABLES
    pc,            \* position in main: "start", "loop", "save", "done"; "path", "resolved", "normalized" in PathSpec
    headers_mode,  \* HeadersMode::from(args.headers_mode)
    quiet,         \* args.quiet
    entries,       \* the directory entries the loop has consumed so far, in order
    headers,       \* let mut headers: Vec<String>
    combined,      \* let mut combined_spreadsheet_data: Vec<Vec<String>>
    out,           \* the lines printed on stdout so far (one tag per line)
    exit_code,     \* -1 while running, else the code passed to exit()
    rows_ok,       \* number of write_record calls that returned Ok
    p_base,        \* PathSpec: base_dir
    p_input,       \* PathSpec: input
    p_home,        \* PathSpec: TRUE iff UserDirs::new() is Some
    p_result       \* PathSpec: the PathBuf returned

vars == <<pc, headers_mode, quiet, entries, headers, combined, out, exit_code,
          rows_ok, p_base, p_input, p_home, p_result>>

engineVars == <<headers_mode, quiet, entries, headers, combined, exit_code, rows_ok>>
pathVars == <<p_base, p_input, p_home, p_result>>

(***************************************************************************)
(* Bounds                                                                  *)
(***************************************************************************)
MaxEntries == 2    \* directory entries per run
MaxRows == 2       \* rows per table
MaxInputLen == 5   \* characters of a path input

(***************************************************************************)
(* Strings                                                                 *)
(***************************************************************************)
StartsWith(s, pre) ==
    /\ Len(s) >= Len(pre)
    /\ SubSeq(s, 1, Len(pre)) = pre

EndsWith(s, suf) ==
    /\ Len(s) >= Len(suf)
    /\ SubSeq(s, Len(s) - Len(suf) + 1, Len(s)) = suf

\* s.split('/') without the empty pieces
RECURSIVE Pieces(_)
Pieces(s) ==
    IF s = <<>> THEN <<>>
    ELSE IF Head(s) = "/" THEN Pieces(Tail(s))
    ELSE LET n == IF \E i \in 1..Len(s) : s[i] = "/"
                  THEN (CHOOSE i \in 1..Len(s) :
                            /\ s[i] = "/"
                            /\ \A j \in 1..(i-1) : s[j] # "/") - 1
                  ELSE Len(s)
         IN <<SubSeq(s, 1, n)>> \o Pieces(SubSeq(s, n + 1, Len(s)))

(***************************************************************************)
(* std::path on Unix, as far as normalize_path uses it                     *)
(***************************************************************************)
\* Path::components(): RootDir for a leading '/', CurDir only for a leading
\* '.', ParentDir for '..', Normal otherwise; repeated and trailing
\* separators and non-leading '.' disappear.
Component(piece) ==
    IF piece = <<".", ".">> THEN [kind |-> "ParentDir", text |-> piece]
    ELSE IF piece = <<".">> THEN [kind |-> "CurDir", text |-> piece]
    ELSE [kind |-> "Normal", text |-> piece]

Components(path) ==
    LET has_root == StartsWith(path, <<"/">>)
        ps == Pieces(path)
        body == [i \in 1..Len(ps) |-> Component(ps[i])]
        kept == SelectSeq([i \in 1..Len(ps) |->
                              [c |-> body[i], first |-> (i = 1)]],
                          LAMBDA x : \/ x.c.kind # "CurDir"
                                     \/ (x.first /\ ~has_root))
        comps == [i \in 1..Len(kept) |-> kept[i].c]
    IN (IF has_root THEN <<[kind |-> "RootDir", text |-> <<"/">>]>> ELSE <<>>)
       \o comps

\* PathBuf::push(p): an absolute p replaces the buffer; otherwise a
\* separator is added when the buffer is non-empty and does not end in one.
Push(buf, p) ==
    IF StartsWith(p, <<"/">>) THEN p
    ELSE IF buf # <<>> /\ buf[Len(buf)] # "/" THEN buf \o <<"/">> \o p
    ELSE buf \o p

RECURSIVE PushAll(_, _)
PushAll(buf, comps) ==
    IF comps = <<>> THEN buf
    ELSE PushAll(Push(buf, Head(comps).text), Tail(comps))

\* PathBuf::pop(): truncates to self.parent(); parent() is None for an empty
\* path and for one ending in the root, and Some(rest) when the last
\* component is Normal, CurDir or ParentDir.  The buffer of normalize_path is
\* built by push alone, so the truncated path is its components but the last,
\* pushed again.
PopOk(buf) ==
    LET cs == Components(buf)
    IN /\ cs # <<>>
       /\ cs[Len(cs)].kind # "RootDir"

Pop(buf) ==
    LET cs == Components(buf)
    IN IF PopOk(buf) THEN PushAll(<<>>, SubSeq(cs, 1, Len(cs) - 1)) ELSE buf

\* Path::join
Join(base, input) == Push(base, input)

(***************************************************************************)
(* normalize_path and path_from                                            *)
(***************************************************************************)
RECURSIVE NormalizeWalk(_, _)
NormalizeWalk(normalized, comps) ==
    IF comps = <<>> THEN normalized
    ELSE LET component == Head(comps)
         IN IF component.kind = "ParentDir"
            THEN IF PopOk(normalized)
                 THEN NormalizeWalk(Pop(normalized), Tail(comps))
                 ELSE NormalizeWalk(Push(normalized, component.text), Tail(comps))
            ELSE NormalizeWalk(Push(normalized, component.text), Tail(comps))

normalize_path(path) ==
    LET ends_with_slash == EndsWith(path, <<"/">>)
        normalized == NormalizeWalk(<<>>, Components(path))
    IN IF ends_with_slash THEN Push(normalized, <<>>) ELSE normalized

\* user_dirs.home_dir().to_string_lossy()
Home == <<"/", "h">>

\* regex ^~(/|$)
TildeMatch(input) ==
    /\ StartsWith(input, <<"~">>)
    /\ Len(input) = 1 \/ input[2] = "/"

\* the replacement of the leading '~': the home directory when one is known,
\* the match itself otherwise
TildeReplace(input, home_known) ==
    IF home_known THEN Home \o Tail(input) ELSE input

path_from(base_dir, input, home_known) ==
    IF StartsWith(input, <<"/">>) THEN input
    ELSE IF TildeMatch(input) THEN TildeReplace(input, home_known)
    ELSE normalize_path(Join(base_dir, input))

\* what path_from prints: the println! of the replacement closure
PathFromOutput(input, home_known) ==
    IF ~StartsWith(input, <<"/">>) /\ TildeMatch(input) /\ ~home_known
    THEN <<"no_user_dirs">>
    ELSE <<>>

(***************************************************************************)
(* Directory entries.  An entry is what the file system and the readers    *)
(* give the loop: file_type(), file_name(), and the result of reading it.  *)
(* Both readers return rows of at least one cell.                          *)
(***************************************************************************)
Rows == {<<"a">>, <<"b">>, <<"a", "b">>, <<"b", "a">>}
\* a table is rectangular: the CSV reader is not flexible (a record of another
\* length is an error, dropped at line 84) and a worksheet range is a grid
Tables ==
    {t \in UNION {[1..n -> Rows] : n \in 0..MaxRows} :
        \A i \in 1..Len(t) : Len(t[i]) = Len(t[1])}
OneRowTables == {t \in Tables : Len(t) <= 1}

CsvName == <<"a", ".", "c", "s", "v">>
XlsxName == <<"b", ".", "x", "l", "s", "x">>
TxtName == <<"c", ".", "t", "x", "t">>
DirName == <<"d">>

\* ftype: file_type() is Ok(dir) / Ok(file) / Err;  read_ok, data: the
\* reader's Result;  note: what the reader printed while reading
\* ("bad_row": a CSV record failed to parse, "multi_sheet": the warning).
Entry(ftype, name, read_ok, data, note) ==
    [ftype |-> ftype, name |-> name, read_ok |-> read_ok, data |-> data, note |-> note]

DirEntries ==
    {Entry("dir", DirName, FALSE, <<>>, "none"),
     Entry("err", TxtName, FALSE, <<>>, "none"),
     Entry("file", TxtName, FALSE, <<>>, "none"),
     Entry("file", CsvName, FALSE, <<>>, "none"),
     Entry("file", CsvName, TRUE, <<>>, "bad_row"),
     Entry("file", XlsxName, FALSE, <<>>, "none"),
     Entry("file", XlsxName, TRUE, << <<"a">> >>, "multi_sheet"),
     Entry("err", CsvName, TRUE, << <<"a">> >>, "none")}
    \cup {Entry("file", CsvName, TRUE, t, "none") : t \in Tables}
    \cup {Entry("file", XlsxName, TRUE, t, "none") : t \in OneRowTables}

(***************************************************************************)
(* main: the body of the loop over the directory entries                   *)
(***************************************************************************)
HeadersModeFrom(value) ==
    CASE value = 0 -> "Combine"
      [] value = 1 -> "Remove"
      [] value = 2 -> "Ignore"
      [] OTHER -> "Combine"

IsCsv(file_name) == EndsWith(file_name, <<".", "c", "s", "v">>)

IsExcel(file_name) ==
    \/ EndsWith(file_name, <<".", "o", "d", "s">>)
    \/ EndsWith(file_name, <<"x", "l", "s">>)
    \/ EndsWith(file_name, <<"x", "l", "s", "x">>)
    \/ EndsWith(file_name, <<"x", "l", "s", "m">>)
    \/ EndsWith(file_name, <<"x", "l", "s", "b">>)
    \/ EndsWith(file_name, <<"x", "l", "a">>)
    \/ EndsWith(file_name, <<"x", "l", "a", "m">>)

\* data_from_csv / data_from_excel: the lines the reader prints
ReaderOutput(e) ==
    IF e.note = "bad_row" THEN <<"csv_row_error">>
    ELSE IF e.note = "multi_sheet" THEN <<"multi_sheet_warning">>
    ELSE <<>>

\* first_row and headers differ in some cell (the zip loop)
HeaderPairDiffers(first_row, hdrs) ==
    \E i \in 1..Len(first_row) : i <= Len(hdrs) /\ first_row[i] # hdrs[i]

\* RemoveRows without the removal: every row is kept
RemoveRowsKeepAll(spreadsheet_data, hdrs) == spreadsheet_data

\* RemoveRows without the comparison of the lengths: the zip alone decides
RemoveRowsZipOnly(spreadsheet_data, hdrs) ==
    IF HeaderPairDiffers(spreadsheet_data[1], hdrs) THEN spreadsheet_data
    ELSE Tail(spreadsheet_data)

RemoveRows(spreadsheet_data, hdrs) ==
    LET first_row == spreadsheet_data[1]
        temp == IF Len(first_row) # Len(hdrs) THEN spreadsheet_data
                ELSE IF HeaderPairDiffers(first_row, hdrs) THEN spreadsheet_data
                ELSE <<>>
    IN IF Len(first_row) # Len(hdrs) THEN temp
       ELSE IF Len(temp) = 0 THEN Tail(spreadsheet_data)
       ELSE temp

\* CombineRows that strips the first file as well
CombineRowsStripAll(spreadsheet_data, index) == Tail(spreadsheet_data)

CombineRows(spreadsheet_data, index) ==
    IF index = 0 THEN spreadsheet_data ELSE Tail(spreadsheet_data)

\* FinalRows with the Ignore arm stripping like Combine
FinalRowsIgnoreStrips(mode, spreadsheet_data, hdrs, index) ==
    CASE mode = "Ignore" -> CombineRows(spreadsheet_data, index)
      [] mode = "Remove" -> RemoveRows(spreadsheet_data, hdrs)
      [] mode = "Combine" -> CombineRows(spreadsheet_data, index)

\* the match on headers_mode
FinalRows(mode, spreadsheet_data, hdrs, index) ==
    CASE mode = "Ignore" -> spreadsheet_data
      [] mode = "Remove" -> RemoveRows(spreadsheet_data, hdrs)
      [] mode = "Combine" -> CombineRows(spreadsheet_data, index)

\* CaptureHeaders gated on "no header yet" instead of index == 0
CaptureHeadersFirstRead(hdrs, spreadsheet_data, index) ==
    IF hdrs = <<>> /\ Len(spreadsheet_data) > 0 THEN spreadsheet_data[1] ELSE hdrs

\* the header captured by the iteration
CaptureHeaders(hdrs, spreadsheet_data, index) ==
    IF index = 0 /\ Len(spreadsheet_data) > 0 THEN spreadsheet_data[1] ELSE hdrs

\* One iteration of the loop on entry e at position index (0-based), from the
\* state st = [headers, combined, out]; every `continue` leaves headers and
\* combined as they were.
ProcessEntry(st, e, index, mode) ==
    LET dir_out == IF e.ftype = "file" THEN st.out ELSE Append(st.out, "skip_directory")
    IN IF e.ftype = "dir" THEN [st EXCEPT !.out = dir_out]
       ELSE IF ~IsCsv(e.name) /\ ~IsExcel(e.name)
            THEN [st EXCEPT !.out = Append(dir_out, "unsupported_type")]
       ELSE LET read_out == dir_out \o ReaderOutput(e)
            IN IF ~e.read_ok THEN [st EXCEPT !.out = Append(read_out, "read_error")]
               ELSE IF Len(e.data) = 0 THEN [st EXCEPT !.out = Append(read_out, "skip_empty")]
               ELSE LET hdrs == CaptureHeaders(st.headers, e.data, index)
                    IN [headers |-> hdrs,
                        combined |-> st.combined \o FinalRows(mode, e.data, hdrs, index),
                        out |-> read_out]

(***************************************************************************)
(* PathSpec: the two path functions applied to bounded inputs              *)
(***************************************************************************)
PathChars == {"/", ".", "a", "~"}
Inputs == UNION {[1..n -> PathChars] : n \in 0..MaxInputLen}
\* main calls path_from(".", ...); an absolute base is what broot passes
Bases == {<<".">>, <<"/", "a">>}

PathInit ==
    /\ pc = "path"
    /\ headers_mode = "Combine"
    /\ quiet \in BOOLEAN
    /\ entries = <<>>
    /\ headers = <<>>
    /\ combined = <<>>
    /\ out = <<>>
    /\ exit_code = -1
    /\ rows_ok = 0
    /\ p_base \in Bases
    /\ p_input \in Inputs
    /\ p_home \in BOOLEAN
    /\ p_result = <<>>

\* path_from(base_dir, input); the println! of the closure at line 146
PathFrom ==
    /\ pc = "path"
    /\ p_result' = path_from(p_base, p_input, p_home)
    /\ out' = out \o PathFromOutput(p_input, p_home)
    /\ pc' = "resolved"
    /\ UNCHANGED <<engineVars, p_base, p_input, p_home>>

\* normalize_path(input)
Normalize ==
    /\ pc = "path"
    /\ p_result' = normalize_path(p_input)
    /\ pc' = "normalized"
    /\ UNCHANGED <<engineVars, out, p_base, p_input, p_home>>

PathNext == PathFrom \/ Normalize

PathSpec == PathInit /\ [][PathNext]_vars

(***************************************************************************)
(* Spec: main                                                              *)
(***************************************************************************)
Init ==
    /\ pc = "start"
    /\ headers_mode \in {HeadersModeFrom(v) : v \in 0..3}
    /\ quiet \in BOOLEAN
    /\ entries = <<>>
    /\ headers = <<>>
    /\ combined = <<>>
    /\ out = <<>>
    /\ exit_code = -1
    /\ rows_ok = 0
    /\ p_base = <<".">>
    /\ p_input = <<>>
    /\ p_home = TRUE
    /\ p_result = <<>>

\* handle_message_output(message, !args.quiet)
handle_message_output(lines, message, print_to_stdout) ==
    IF print_to_stdout THEN Append(lines, message) ELSE lines

\* args.folder is None: the default folder is announced
FolderName(lines, folder_given) ==
    IF folder_given THEN lines
    ELSE handle_message_output(lines, "no_folder_provided", ~quiet)

Exit(code, lines) ==
    /\ pc' = "done"
    /\ exit_code' = code
    /\ out' = lines
    /\ UNCHANGED <<headers_mode, quiet, entries, headers, combined, rows_ok, pathVars>>

\* args.out_file: the default and a home-relative one
OutFiles == {<<".", "/", "o">>, <<"~", "/", "o">>}

\* let output_file = path_from(".", &args.out_file): what it prints
OutputFile(lines, out_file, home_known) ==
    lines \o PathFromOutput(out_file, home_known)

\* Path::new(&folder_name).canonicalize() fails
StartFolderError ==
    /\ pc = "start"
    /\ \E folder_given \in BOOLEAN :
          Exit(1, handle_message_output(FolderName(out, folder_given), "folder_error", ~quiet))

\* !spreadsheet_folder.is_dir()
StartNotAFolder ==
    /\ pc = "start"
    /\ \E folder_given \in BOOLEAN :
          Exit(1, handle_message_output(FolderName(out, folder_given), "not_a_folder", ~quiet))

\* output_file.is_dir()
StartOutputIsDir ==
    /\ pc = "start"
    /\ \E folder_given \in BOOLEAN, out_file \in OutFiles, home_known \in BOOLEAN :
          Exit(1, handle_message_output(
                      OutputFile(FolderName(out, folder_given), out_file, home_known),
                      "output_is_directory", ~quiet))

\* fs::read_dir fails
StartReadDirError ==
    /\ pc = "start"
    /\ \E folder_given \in BOOLEAN, out_file \in OutFiles, home_known \in BOOLEAN :
          Exit(1, Append(OutputFile(FolderName(out, folder_given), out_file, home_known),
                         "read_dir_error"))

\* every start-up check passes: the loop begins
StartOk ==
    /\ pc = "start"
    /\ \E folder_given \in BOOLEAN, out_file \in OutFiles, home_known \in BOOLEAN :
          out' = OutputFile(FolderName(out, folder_given), out_file, home_known)
    /\ pc' = "loop"
    /\ UNCHANGED <<engineVars, pathVars>>

\* one iteration of `for (index, entry) in dir_entries.enumerate()`
LoopIteration ==
    /\ pc = "loop"
    /\ Len(entries) < MaxEntries
    /\ \E e \in DirEntries :
          LET st == ProcessEntry([headers |-> headers, combined |-> combined, out |-> out],
                                 e, Len(entries), headers_mode)
          IN /\ entries' = Append(entries, e)
             /\ headers' = st.headers
             /\ combined' = st.combined
             /\ out' = st.out
    /\ UNCHANGED <<pc, headers_mode, quiet, exit_code, rows_ok, pathVars>>

\* writer.write_record(row): the writer is not flexible, a record whose
\* number of fields differs from the first record's is an error (the first
\* failure is exact; later records are judged by the same rule)
WriteRecordOk(data, i) == Len(data[i]) = Len(data[1])

\* save_to_csv: [ok, rows_ok, out]; a failed write_record is printed and
\* the function still returns Ok(())
save_to_csv(data, create_ok, lines) ==
    IF ~create_ok THEN [ok |-> FALSE, rows_ok |-> 0, out |-> lines]
    ELSE LET good == {i \in 1..Len(data) : WriteRecordOk(data, i)}
             bad == Len(data) - Cardinality(good)
         IN [ok |-> TRUE,
             rows_ok |-> Cardinality(good),
             out |-> lines \o [i \in 1..bad |-> "write_row_error"]]

\* the directory is exhausted: save_to_csv, then the match on its result
Save ==
    /\ pc = "loop"
    /\ \E create_ok \in BOOLEAN :
          LET r == save_to_csv(combined, create_ok, out)
          IN /\ rows_ok' = r.rows_ok
             /\ out' = Append(r.out, IF r.ok THEN "success_lines_written" ELSE "failure")
             /\ exit_code' = IF r.ok THEN 0 ELSE 1
    /\ pc' = "done"
    /\ UNCHANGED <<headers_mode, quiet, entries, headers, combined, pathVars>>

Next ==
    \/ StartFolderError
    \/ StartNotAFolder
    \/ StartOutputIsDir
    \/ StartReadDirError
    \/ StartOk
    \/ LoopIteration
    \/ Save

Spec == Init /\ [][Next]_vars

(***************************************************************************)
(* Vocabulary of the properties                                            *)
(***************************************************************************)
\* the loop reads e and appends rows of it
Contributes(e) ==
    /\ e.ftype # "dir"
    /\ IsCsv(e.name) \/ IsExcel(e.name)
    /\ e.read_ok
    /\ Len(e.data) > 0

Skipped(e) == ~Contributes(e)

\* the full tables of the contributing entries, in entry order
RECURSIVE ConcatData(_)
ConcatData(es) ==
    IF es = <<>> THEN <<>>
    ELSE (IF Contributes(Head(es)) THEN Head(es).data ELSE <<>>) \o ConcatData(Tail(es))

\* the same without the first row of each table
RECURSIVE ConcatTails(_)
ConcatTails(es) ==
    IF es = <<>> THEN <<>>
    ELSE (IF Contributes(Head(es)) THEN Tail(Head(es).data) ELSE <<>>) \o ConcatTails(Tail(es))

\* combined_spreadsheet_data after the loop has run over es from scratch
RECURSIVE RunFrom(_, _, _, _)
RunFrom(st, es, index, mode) ==
    IF es = <<>> THEN st.combined
    ELSE RunFrom(ProcessEntry(st, Head(es), index, mode), Tail(es), index + 1, mode)

RunCombined(es, mode) ==
    RunFrom([headers |-> <<>>, combined |-> <<>>, out |-> <<>>], es, 0, mode)

RemoveAt(es, i) == SubSeq(es, 1, i - 1) \o SubSeq(es, i + 1, Len(es))

\* the run was over exactly two contributing files of the same number of rows
TwoFilesOfEqualHeight ==
    /\ Len(entries) = 2
    /\ Contributes(entries[1])
    /\ Contributes(entries[2])
    /\ Len(entries[1].data) = Len(entries[2].data)

\* the run was over contributing files only, all of the same number of rows
AllFilesOfEqualHeight ==
    /\ Len(entries) >= 1
    /\ \A i \in 1..Len(entries) :
          /\ Contributes(entries[i])
          /\ Len(entries[i].data) = Len(entries[1].data)

(***************************************************************************)
(* Properties of Spec                                                      *)
(***************************************************************************)
\* C1 (as stated): under Remove, two files of r rows each whose first rows
\* are identical give 2r-1 combined rows.
C1_RemoveMatchingGives2rMinus1 ==
    (headers_mode = "Remove" /\ TwoFilesOfEqualHeight
       /\ entries[1].data[1] = entries[2].data[1])
    => Len(combined) = 2 * Len(entries[1].data) - 1

\* C1 (amended): under Remove, two files of r rows each whose first rows are
\* identical give 2r-2 combined rows: the first row of each file is removed,
\* the first file's as well, since it is compared with the header it set.
C1_RemoveMatchingGives2rMinus2 ==
    (headers_mode = "Remove" /\ TwoFilesOfEqualHeight
       /\ entries[1].data[1] = entries[2].data[1])
    => /\ Len(combined) = 2 * Len(entries[1].data) - 2
       /\ combined = Tail(entries[1].data) \o Tail(entries[2].data)

C1_Witness ==
    /\ pc = "done"
    /\ exit_code = 0
    /\ headers_mode = "Remove"
    /\ TwoFilesOfEqualHeight
    /\ Len(entries[1].data) = 2
    /\ entries[1].data[1] = entries[2].data[1]
    /\ Len(combined) = 2

\* C2 (as stated): under Remove, two files of r rows each whose first rows
\* differ give 2r combined rows.
C2_RemoveMismatchGives2r ==
    (headers_mode = "Remove" /\ TwoFilesOfEqualHeight
       /\ entries[1].data[1] # entries[2].data[1])
    => Len(combined) = 2 * Len(entries[1].data)

\* C2 (amended): under Remove, two files of r rows each whose first rows
\* differ give 2r-1 combined rows: the second file is kept whole, its first
\* row as data, and the first file loses its first row.
C2_RemoveMismatchGives2rMinus1 ==
    (headers_mode = "Remove" /\ TwoFilesOfEqualHeight
       /\ entries[1].data[1] # entries[2].data[1])
    => /\ Len(combined) = 2 * Len(entries[1].data) - 1
       /\ combined = Tail(entries[1].data) \o entries[2].data

C2_Witness ==
    /\ pc = "done"
    /\ exit_code = 0
    /\ headers_mode = "Remove"
    /\ TwoFilesOfEqualHeight
    /\ Len(entries[1].data) = 2
    /\ Len(entries[1].data[1]) # Len(entries[2].data[1])
    /\ StartsWith(entries[2].data[1], entries[1].data[1])
    /\ Len(combined) = 3

\* C3: under Combine, k files of r rows each give r + (k-1)*(r-1) combined
\* rows, the first of them the first file's first row.
C3_CombineRowCount ==
    (headers_mode = "Combine" /\ AllFilesOfEqualHeight)
    => /\ Len(combined) =
              Len(entries[1].data) + (Len(entries) - 1) * (Len(entries[1].data) - 1)
       /\ combined[1] = entries[1].data[1]

C3_Witness ==
    /\ pc = "done"
    /\ exit_code = 0
    /\ headers_mode = "Combine"
    /\ AllFilesOfEqualHeight
    /\ Len(entries) = 2
    /\ Len(entries[1].data) = 2
    /\ entries[1].data[1] # entries[2].data[1]
    /\ Len(combined) = 3

\* C4: under Ignore, the combined table is the concatenation, in entry order,
\* of the full tables of the entries that were read and are not empty.
C4_IgnoreConcatenates ==
    headers_mode = "Ignore" => combined = ConcatData(entries)

C4_Witness ==
    /\ pc = "done"
    /\ exit_code = 0
    /\ headers_mode = "Ignore"
    /\ Len(entries) = 2
    /\ Contributes(entries[1])
    /\ Contributes(entries[2])
    /\ Len(entries[1].data) = 1
    /\ Len(entries[2].data) = 2
    /\ entries[1].data[1] = entries[2].data[1]
    /\ Len(combined) = 3

\* C5: a skipped entry does not affect its siblings: the combined table is
\* the one of the run over the same entries with the skipped entry removed.
C5_SkippedEntryDoesNotAffectSiblings ==
    \A i \in 1..Len(entries) :
        Skipped(entries[i]) => combined = RunCombined(RemoveAt(entries, i), headers_mode)

\* C7: with quiet set, nothing is printed.
C7_QuietPrintsNothing ==
    quiet => out = <<>>

\* C8: exit code 0 only when every row of the combined table was written.
C8_ExitZeroOnlyIfAllRowsWritten ==
    (pc = "done" /\ exit_code = 0) => rows_ok = Len(combined)

ParentCount(comps) == Cardinality({i \in 1..Len(comps) : comps[i].kind = "ParentDir"})

\* the components of path before its first named one are all '..'
OnlyLeadingParents(path) ==
    LET cs == Components(path)
    IN /\ cs # <<>>
       /\ \A i \in 1..Len(cs) : cs[i].kind = "ParentDir"

\* C6: an input ending in '/' resolves to a path ending in '/'.
C6_TrailingSlashPreserved ==
    (pc = "resolved" /\ EndsWith(p_input, <<"/">>)) => EndsWith(p_result, <<"/">>)

\* C9: a path of n '..' components and nothing else normalizes to a path
\* that still has n '..' components: a '..' never cancels a kept '..'.
C9_LeadingParentsKept ==
    (pc = "normalized" /\ OnlyLeadingParents(p_input))
    => ParentCount(Components(p_result)) = ParentCount(Components(p_input))

====
